---- MODULE Spec2Model ----
(***************************************************************************)
(* A model of six pieces of the Element web client:                        *)
(*   - RoomStatusBar (src/components/structures/RoomStatusBar.tsx), the    *)
(*     React component showing "connectivity lost" / "unsent messages";    *)
(*   - the slash-command registry, parser and dispatcher (SlashCommands);  *)
(*   - the /verify command handler;                                        *)
(*   - SetupEncryptionStore, as exercised by its unit test;                *)
(*   - the poll history dialog, as exercised by its end-to-end test;       *)
(*   - the emoticon commands /shrug, /tableflip, /unflip and /lenny.       *)
(* Each piece has its own specification over its own group of variables;   *)
(* the other groups stay at their idle values.                             *)
(***************************************************************************)
EXTENDS Integers, Sequences, FiniteSets, TLC

VARIABLES
    \* ---- RoomStatusBar ----
    phase,          \* "constructed" | "mounted" | "unmounted" (this.unmounted)
    state,          \* this.state: syncState, syncStateData, unsentMessages, isResending
    props,          \* which of the optional callbacks onVisible / onHidden are supplied
    cliSync,        \* the client's current sync state (context.getSyncState())
    pending,        \* the room's pending events: event id -> status
    resends,        \* number of resendUnsentEvents promises not yet settled
    rendered,       \* what the last render() produced
    called,         \* the callbacks invoked by the last step, in order
    updated,        \* whether the last step ended in componentDidMount / componentDidUpdate
    \* ---- slash commands ----
    env,            \* the settings and client state that the isEnabled closures read
    CommandMap,     \* the registry: name or alias -> index into Commands
    buildPos,       \* index of the next element of Commands to register
    cpc,            \* "idle" | "typed" | "parsed" | "got"
    input,          \* the raw text handed to parseCommandString / getCommand
    parsed,         \* what parseCommandString returned
    result,         \* what getCommand returned
    \* ---- /verify ----
    vpc,            \* position in the verify handler
    vargs,          \* the args the handler was run with: [has, s]
    vmatch,         \* matches[1..3]: userId, deviceId, fingerprint
    vdevice,        \* what getDeviceCryptoInfo resolved to: [known, fingerprint]
    vtrust,         \* what getDeviceVerificationStatus resolved to
    setDeviceVerifiedCalls, \* the calls cli.setDeviceVerified(userId, deviceId, verified)
    setDeviceVerifiedDone,  \* whether the promise of that call has resolved
    dialogs,        \* titles of the dialogs Modal.createDialog has shown
    voutcome,       \* how the promise returned by runFn settled
    \* ---- SetupEncryptionStore ----
    mock,           \* what the mocked SDK answers; the cached account password
    store,          \* the store's fields
    spc,            \* position in start() / resetConfirm()
    devIdx,         \* asyncSome: index of the next device to examine
    statusQueried,  \* devices getDeviceVerificationStatus was called for
    observed,       \* the store fields as seen by each 'update' listener call
    accessCalls,    \* the calls accessSecretStorage(func, forceReset)
    requests,       \* the auth dicts handed to makeRequest
    \* ---- poll history dialog ----
    pollStatus,     \* poll id -> "none" | "active" | "ended", from the room's events
    pollVotes,      \* poll id -> number of poll.response events counted for it
    dlg,            \* the dialog: [open, filter, detail]
    activeList,     \* the polls listed under "Active polls"
    pastList,       \* the polls listed under "Past polls"
    endedWhileOpen, \* the polls whose poll.end arrived while the dialog was open
    \* ---- emoticon commands ----
    epc,            \* "ready" | "ran"
    ecmd,           \* the command run: "shrug" | "tableflip" | "unflip" | "lenny"
    eargs,          \* the args runFn is called with: [has, s]
    eresult         \* the RunResult: [settled, content]

barVars == <<phase, state, props, cliSync, pending, resends, rendered, called, updated>>
cmdVars == <<env, CommandMap, buildPos, cpc, input, parsed, result>>

verifyVars == <<vpc, vargs, vmatch, vdevice, vtrust, setDeviceVerifiedCalls,
                setDeviceVerifiedDone, dialogs, voutcome>>
storeVars == <<mock, store, spc, devIdx, statusQueried, observed, accessCalls, requests>>

pollVars == <<pollStatus, pollVotes, dlg, activeList, pastList, endedWhileOpen>>
emoteVars == <<epc, ecmd, eargs, eresult>>

vars == <<barVars, cmdVars, verifyVars, storeVars, pollVars, emoteVars>>

\* What the steps of one piece leave unchanged.
notBar == <<cmdVars, verifyVars, storeVars, pollVars, emoteVars>>
notCmd == <<barVars, verifyVars, storeVars, pollVars, emoteVars>>
notVerify == <<barVars, cmdVars, storeVars, pollVars, emoteVars>>
notStore == <<barVars, cmdVars, verifyVars, pollVars, emoteVars>>
notPoll == <<barVars, cmdVars, verifyVars, storeVars, emoteVars>>
notEmote == <<barVars, cmdVars, verifyVars, storeVars, pollVars>>

-----------------------------------------------------------------------------
(* Bounds *)

MaxEvents == 2      \* pending events of the room that the model tracks
MaxResends == 1     \* resend promises in flight at once
MaxPolls == 2       \* polls started in the room
MaxVotes == 2       \* responses counted per poll
MaxEmoteArgs == 3   \* length of the args given to an emoticon command

-----------------------------------------------------------------------------
(* Idle values: what a group of variables holds while another piece runs.  *)

NoParse == [hasCmd |-> FALSE, cmd |-> <<>>, hasArgs |-> FALSE, args |-> <<>>]
NoResult == [hasCmd |-> FALSE, cmd |-> 0, hasArgs |-> FALSE, args |-> <<>>]

IdleBar ==
    /\ phase = "unmounted"
    /\ state = [syncState |-> "SYNCING", syncStateData |-> [kind |-> "null", name |-> ""],
                unsentMessages |-> <<>>, isResending |-> FALSE]
    /\ props = [onVisible |-> FALSE, onHidden |-> FALSE]
    /\ cliSync = "SYNCING"
    /\ pending = [e \in 1..MaxEvents |-> "GONE"]
    /\ resends = 0
    /\ rendered = [bar |-> "null", buttons |-> "none"]
    /\ called = <<>>
    /\ updated = FALSE

IdleCmd ==
    /\ env = {}
    /\ CommandMap = <<>>
    /\ buildPos = 1
    /\ cpc = "idle"
    /\ input = <<>>
    /\ parsed = NoParse
    /\ result = NoResult

NoTokens == [userId |-> <<>>, deviceId |-> <<>>, fingerprint |-> <<>>]
NoDevice == [known |-> FALSE, fingerprint |-> <<>>]

IdleVerify ==
    /\ vpc = "idle"
    /\ vargs = [has |-> FALSE, s |-> <<>>]
    /\ vmatch = NoTokens
    /\ vdevice = NoDevice
    /\ vtrust = "none"
    /\ setDeviceVerifiedCalls = <<>>
    /\ setDeviceVerifiedDone = FALSE
    /\ dialogs = <<>>
    /\ voutcome = "pending"

NoMock == [storedKeys |-> <<>>, dehydrated |-> 0, devices |-> <<>>,
           identityKey |-> <<>>, signedByOwner |-> <<>>, password |-> ""]
NewStore == [started |-> FALSE, phase |-> "Loading", keyId |-> "", keyInfo |-> "",
             hasDevicesToVerifyAgainst |-> FALSE]

IdleStore ==
    /\ mock = NoMock
    /\ store = NewStore
    /\ spc = "idle"
    /\ devIdx = 0
    /\ statusQueried = {}
    /\ observed = <<>>
    /\ accessCalls = <<>>
    /\ requests = <<>>

ClosedDialog == [open |-> FALSE, filter |-> "ACTIVE", detail |-> 0]

IdlePoll ==
    /\ pollStatus = [p \in 1..MaxPolls |-> "none"]
    /\ pollVotes = [p \in 1..MaxPolls |-> 0]
    /\ dlg = ClosedDialog
    /\ activeList = {}
    /\ pastList = {}
    /\ endedWhileOpen = {}

NoRunResult == [settled |-> "none", content |-> [msgtype |-> "", body |-> <<>>]]

IdleEmote ==
    /\ epc = "ran"
    /\ ecmd = "shrug"
    /\ eargs = [has |-> FALSE, s |-> <<>>]
    /\ eresult = NoRunResult

-----------------------------------------------------------------------------
(* RoomStatusBar                                                           *)

STATUS_BAR_HIDDEN == 0
STATUS_BAR_EXPANDED == 1
STATUS_BAR_EXPANDED_LARGE == 2

\* SyncState values of the SDK that the component distinguishes or passes on.
SyncStates == {"SYNCING", "ERROR", "RECONNECTING"}

\* SyncStateData: null/undefined, an object without error, or one with an error
\* of the given name.
SyncStateDatas ==
    { [kind |-> "null", name |-> ""],
      [kind |-> "noerror", name |-> ""],
      [kind |-> "error", name |-> "M_RESOURCE_LIMIT_EXCEEDED"],
      [kind |-> "error", name |-> "M_UNKNOWN"] }

EventIds == 1..MaxEvents

\* EventStatus of a pending event; "GONE" = no longer in the pending list.
EventStatuses == {"GONE", "SENDING", "NOT_SENT"}

RECURSIVE FilterIds(_, _, _)
FilterIds(f, want, i) ==
    IF i > MaxEvents THEN <<>>
    ELSE (IF f[i] = want THEN <<i>> ELSE <<>>) \o FilterIds(f, want, i + 1)

\* getUnsentMessages(room): the pending events whose status is NOT_SENT, in
\* pending-list order (no threadId is passed by the status bar).
getUnsentMessages(roomPending) == FilterIds(roomPending, "NOT_SENT", 1)

\* Variant: the resource-limit exception is forgotten.
shouldShowConnectionError_noMauException(s) ==
    s.syncState = "ERROR"

shouldShowConnectionError(s) ==
    LET errorIsMauError ==
            /\ s.syncStateData.kind # "null"
            /\ s.syncStateData.kind = "error"
            /\ s.syncStateData.name = "M_RESOURCE_LIMIT_EXCEEDED"
    IN  s.syncState = "ERROR" /\ ~errorIsMauError

getSize(s) ==
    IF shouldShowConnectionError(s) THEN STATUS_BAR_EXPANDED
    ELSE IF Len(s.unsentMessages) > 0 \/ s.isResending THEN STATUS_BAR_EXPANDED_LARGE
    ELSE STATUS_BAR_HIDDEN

\* The unsent-messages bar: Delete all / Retry all buttons, replaced by the
\* "Sending" spinner while isResending.
getUnsentMessageContent(s) ==
    [bar |-> "unsentMessages",
     buttons |-> IF s.isResending THEN "spinner" ELSE "retryCancel"]

NullElement == [bar |-> "null", buttons |-> "none"]

\* Variant: the unsent-messages bar is tried before the connection bar.
render_unsentFirst(s) ==
    IF Len(s.unsentMessages) > 0 \/ s.isResending
    THEN getUnsentMessageContent(s)
    ELSE IF shouldShowConnectionError(s)
         THEN [bar |-> "connectionLost", buttons |-> "none"]
         ELSE NullElement

render(s) ==
    IF shouldShowConnectionError(s)
    THEN [bar |-> "connectionLost", buttons |-> "none"]
    ELSE IF Len(s.unsentMessages) > 0 \/ s.isResending
         THEN getUnsentMessageContent(s)
         ELSE NullElement

\* Variant: the two callbacks are swapped.
checkSize_swapped(s, p) ==
    IF getSize(s) # 0
    THEN (IF p.onHidden THEN <<"onHidden">> ELSE <<>>)
    ELSE (IF p.onVisible THEN <<"onVisible">> ELSE <<>>)

\* checkSize(): the callbacks it invokes, given the optional props.
checkSize(s, p) ==
    IF getSize(s) # 0
    THEN (IF p.onVisible THEN <<"onVisible">> ELSE <<>>)
    ELSE (IF p.onHidden THEN <<"onHidden">> ELSE <<>>)

\* React commits a state update: render(), then componentDidUpdate() -> checkSize().
\* A PureComponent skips both when the new state is shallowly equal to the old.
Commit(newState, changed) ==
    /\ state' = newState
    /\ IF changed
       THEN /\ rendered' = render(newState)
            /\ called' = checkSize(newState, props)
            /\ updated' = TRUE
       ELSE /\ rendered' = rendered
            /\ called' = <<>>
            /\ updated' = FALSE

NoCommit ==
    /\ UNCHANGED <<state, rendered>>
    /\ called' = <<>>
    /\ updated' = FALSE

\* constructor: state read from the client and the room.
InitBar ==
    /\ phase = "constructed"
    /\ props \in [onVisible : BOOLEAN, onHidden : BOOLEAN]
    /\ cliSync \in SyncStates
    /\ pending \in [EventIds -> EventStatuses]
    /\ \E d \in SyncStateDatas :
          state = [syncState |-> cliSync,
                   syncStateData |-> d,
                   unsentMessages |-> getUnsentMessages(pending),
                   isResending |-> FALSE]
    /\ resends = 0
    /\ rendered = render(state)
    /\ called = <<>>
    /\ updated = FALSE
    /\ IdleCmd /\ IdleVerify /\ IdleStore /\ IdlePoll /\ IdleEmote

componentDidMount ==
    /\ phase = "constructed"
    /\ phase' = "mounted"
    /\ called' = checkSize(state, props)
    /\ updated' = TRUE
    /\ UNCHANGED <<state, props, cliSync, pending, resends, rendered>>
    /\ UNCHANGED notBar

componentWillUnmount ==
    /\ phase = "mounted"
    /\ phase' = "unmounted"
    /\ NoCommit
    /\ UNCHANGED <<props, cliSync, pending, resends>>
    /\ UNCHANGED notBar

\* Variant: the listener stays registered and does not test this.unmounted.
onSyncStateChange_afterUnmount(newState, data, fresh) ==
    LET prevState == cliSync IN
    /\ phase # "constructed"
    /\ cliSync' = newState
    /\ IF newState = "SYNCING" /\ prevState = "SYNCING" THEN NoCommit
       ELSE LET s == [state EXCEPT !.syncState = newState, !.syncStateData = data]
            IN  Commit(s, fresh \/ s # state)
    /\ UNCHANGED <<phase, props, pending, resends>>
    /\ UNCHANGED notBar

\* Variant: the early return for SYNCING -> SYNCING is missing.
onSyncStateChange_noSyncingSkip(newState, data, fresh) ==
    /\ phase # "constructed"
    /\ cliSync' = newState
    /\ IF phase # "mounted" THEN NoCommit
       ELSE LET s == [state EXCEPT !.syncState = newState, !.syncStateData = data]
            IN  Commit(s, fresh \/ s # state)
    /\ UNCHANGED <<phase, props, pending, resends>>
    /\ UNCHANGED notBar

\* The client emits "sync" (state, prevState, data); the listener is registered
\* between componentDidMount and componentWillUnmount (construction and mount
\* happen in one React commit, so no event falls between them).  `fresh` tells
\* whether data is a new object (always an update) or the object already held.
onSyncStateChange(newState, data, fresh) ==
    LET prevState == cliSync IN
    /\ phase # "constructed"
    /\ cliSync' = newState
    /\ IF phase # "mounted" THEN NoCommit
       ELSE IF newState = "SYNCING" /\ prevState = "SYNCING" THEN NoCommit
       ELSE LET s == [state EXCEPT !.syncState = newState, !.syncStateData = data]
            IN  Commit(s, fresh \/ s # state)
    /\ UNCHANGED <<phase, props, pending, resends>>
    /\ UNCHANGED notBar

\* Variant: any local-echo update ends the resending state.
localEchoState_clearsResending(s, messages) ==
    [s EXCEPT !.unsentMessages = messages, !.isResending = FALSE]

\* Variant: the resending state is derived from the unsent messages alone.
localEchoState_resendingIfUnsent(s, messages) ==
    [s EXCEPT !.unsentMessages = messages, !.isResending = Len(messages) > 0]

\* Variant: the resending state is kept whatever the unsent messages are.
localEchoState_keepsResending(s, messages) ==
    [s EXCEPT !.unsentMessages = messages, !.isResending = s.isResending]

\* The state object onRoomLocalEchoUpdated hands to setState.
localEchoState(s, messages) ==
    [s EXCEPT !.unsentMessages = messages,
              !.isResending = Len(messages) > 0 /\ s.isResending]

\* The room's pending list changes (a send starts, fails, succeeds or is
\* cancelled) and the SDK emits Room.localEchoUpdated for this room.
onRoomLocalEchoUpdated(e, st) ==
    /\ phase # "constructed"
    /\ pending[e] # st
    /\ \/ pending[e] = "GONE" /\ st = "SENDING"
       \/ pending[e] = "SENDING"
       \/ pending[e] = "NOT_SENT"
    /\ pending' = [pending EXCEPT ![e] = st]
    /\ IF phase # "mounted" THEN NoCommit
       ELSE Commit(localEchoState(state, getUnsentMessages(pending')), TRUE)
    /\ UNCHANGED <<phase, props, cliSync, resends>>
    /\ UNCHANGED notBar

\* Room.localEchoUpdated for another room: the handler returns at once.
onOtherRoomLocalEchoUpdated ==
    /\ phase = "mounted"
    /\ NoCommit
    /\ UNCHANGED <<phase, props, cliSync, pending, resends>>
    /\ UNCHANGED notBar

\* "Retry all" clicked.  Resend.resendUnsentEvents may already move some of the
\* unsent events to SENDING before it returns its promise (S), each with a
\* local-echo update that the handler sees with the old isResending; then
\* setState({isResending: true}).
onResendAllClick(S) ==
    /\ phase = "mounted"
    /\ rendered.buttons = "retryCancel"
    /\ resends < MaxResends
    /\ \A e \in S : pending[e] = "NOT_SENT"
    /\ pending' = [e \in EventIds |-> IF e \in S THEN "SENDING" ELSE pending[e]]
    /\ resends' = resends + 1
    /\ LET messages == IF S = {} THEN state.unsentMessages ELSE getUnsentMessages(pending')
           s == [state EXCEPT !.unsentMessages = messages, !.isResending = TRUE]
       IN  Commit(s, TRUE)
    /\ UNCHANGED <<phase, props, cliSync>>
    /\ UNCHANGED notBar

\* A resend promise settles.  Resolved: the then-callback does
\* setState({isResending: false}) (ignored by React once unmounted).
\* Rejected: no handler is attached.
resendSettled(ok) ==
    /\ resends > 0
    /\ resends' = resends - 1
    /\ IF ok /\ phase = "mounted"
       THEN LET s == [state EXCEPT !.isResending = FALSE] IN Commit(s, s # state)
       ELSE NoCommit
    /\ UNCHANGED <<phase, props, cliSync, pending>>
    /\ UNCHANGED notBar

\* "Delete all" clicked: Resend.cancelUnsentEvents removes every NOT_SENT event,
\* each removal reaching the local-echo handler.
onCancelAllClick ==
    /\ phase = "mounted"
    /\ rendered.buttons = "retryCancel"
    /\ pending' = [e \in EventIds |-> IF pending[e] = "NOT_SENT" THEN "GONE" ELSE pending[e]]
    /\ IF pending' = pending THEN NoCommit
       ELSE Commit(localEchoState(state, getUnsentMessages(pending')), TRUE)
    /\ UNCHANGED <<phase, props, cliSync, resends>>
    /\ UNCHANGED notBar

Next ==
    \/ componentDidMount
    \/ componentWillUnmount
    \/ \E st \in SyncStates, d \in SyncStateDatas, fresh \in BOOLEAN :
          onSyncStateChange(st, d, fresh)
    \/ \E e \in EventIds, st \in EventStatuses : onRoomLocalEchoUpdated(e, st)
    \/ onOtherRoomLocalEchoUpdated
    \/ \E S \in SUBSET EventIds : onResendAllClick(S)
    \/ \E ok \in BOOLEAN : resendSettled(ok)
    \/ onCancelAllClick

Spec == InitBar /\ [][Next]_vars

-----------------------------------------------------------------------------
(* Properties of RoomStatusBar                                             *)

IsResourceLimitError(d) == d.kind = "error" /\ d.name = "M_RESOURCE_LIMIT_EXCEEDED"

\* C3: whenever syncState is ERROR and the sync error is not
\* M_RESOURCE_LIMIT_EXCEEDED, what is rendered is the connectivity-lost bar,
\* without the Retry all / Delete all buttons and without the spinner,
\* whatever unsentMessages and isResending are.
C3_ConnectionErrorTrumpsUnsent ==
    (state.syncState = "ERROR" /\ ~IsResourceLimitError(state.syncStateData))
        => (rendered.bar = "connectionLost" /\ rendered.buttons = "none")

\* C3 witness: a mounted bar in sync ERROR (not a resource limit) that has
\* unsent messages and a resend in progress.
C3_Witness ==
    /\ phase = "mounted"
    /\ state.syncState = "ERROR"
    /\ state.syncStateData = [kind |-> "error", name |-> "M_UNKNOWN"]
    /\ Len(state.unsentMessages) > 0
    /\ state.isResending
    /\ rendered.bar = "connectionLost"

\* C4: whenever syncState is ERROR with an M_RESOURCE_LIMIT_EXCEEDED error, the
\* connectivity-lost bar is not rendered: the unsent-messages bar is, if there
\* are unsent messages or a resend is in progress, and nothing otherwise.
C4_ResourceLimitShowsNoConnectionBar ==
    (state.syncState = "ERROR" /\ IsResourceLimitError(state.syncStateData))
        => rendered.bar = (IF Len(state.unsentMessages) > 0 \/ state.isResending
                           THEN "unsentMessages" ELSE "null")

\* C4 witness: a sync event put the mounted bar in ERROR with a resource-limit
\* error while messages are unsent.
C4_Witness ==
    /\ phase = "mounted"
    /\ updated
    /\ state.syncState = "ERROR"
    /\ IsResourceLimitError(state.syncStateData)
    /\ Len(state.unsentMessages) > 0
    /\ rendered.bar = "unsentMessages"

\* C5: componentDidMount and every componentDidUpdate invoke onVisible (if
\* supplied) and nothing else when a bar is rendered, onHidden (if supplied)
\* and nothing else when render returned null; and getSize() is 0 exactly when
\* render returns null.
C5_VisibilityCallbacks ==
    /\ updated =>
          called = (IF rendered.bar # "null"
                    THEN (IF props.onVisible THEN <<"onVisible">> ELSE <<>>)
                    ELSE (IF props.onHidden THEN <<"onHidden">> ELSE <<>>))
    /\ (getSize(state) = STATUS_BAR_HIDDEN) <=> (rendered = NullElement)

\* C5 witness: an update of a mounted bar that hid it (the last unsent message
\* went away) and called onHidden.
C5_Witness ==
    /\ phase = "mounted"
    /\ updated
    /\ called = <<"onHidden">>
    /\ rendered = NullElement
    /\ state.unsentMessages = <<>>
    /\ \E e \in EventIds : pending[e] = "GONE"

\* C13 as stated: in every state of a mounted bar in which a resend promise is
\* still pending, isResending is true and the Retry all / Delete all buttons are
\* not shown.
C13_ResendingWhilePending ==
    (phase = "mounted" /\ resends > 0)
        => (state.isResending /\ rendered.buttons # "retryCancel")

\* C13, amended: a "Retry all" click sets isResending, and isResending turns
\* false only in a step that leaves no unsent message (a local-echo update that
\* finds none) or in which a resend promise settles; so the buttons come back
\* while a promise is still pending only after such an update.
C13_ResendingEndsOnlyWhenNoneUnsent ==
    [][ /\ resends' > resends => state'.isResending
        /\ (state.isResending /\ ~state'.isResending)
              => (state'.unsentMessages = <<>> \/ resends' < resends) ]_vars

\* A mounted bar showing Retry all / Delete all for a newly failed message
\* while the promise of an earlier "Retry all" is still pending.
C13_Witness ==
    /\ phase = "mounted"
    /\ resends > 0
    /\ ~state.isResending
    /\ Len(state.unsentMessages) > 0
    /\ rendered.buttons = "retryCancel"
    /\ \E e \in EventIds : pending[e] = "SENDING"

\* C14: a "Retry all" click sets isResending to true, and once the resend
\* promise has settled, by resolving or by rejecting, isResending is false
\* again: on a mounted bar with no resend promise pending the "Sending" spinner
\* is not shown.
C14_SpinnerEndsWhenResendSettles ==
    (phase = "mounted" /\ resends = 0) => ~state.isResending

C16_SyncEventFrame ==
    [][ \A newState \in SyncStates, data \in SyncStateDatas, fresh \in BOOLEAN :
          (phase = "mounted" /\ onSyncStateChange(newState, data, fresh))
             => IF newState = "SYNCING" /\ cliSync = "SYNCING"
                THEN state' = state
                ELSE /\ state'.syncState = newState
                     /\ state'.syncStateData = data
                     /\ state'.unsentMessages = state.unsentMessages
                     /\ state'.isResending = state.isResending ]_vars

\* A resend was started while no connection error was shown (the button is not
\* rendered otherwise), then a sync event moved the bar to ERROR: isResending
\* and the unsent messages are still there.
C16_Witness ==
    /\ phase = "mounted"
    /\ cliSync = "ERROR"
    /\ state.syncState = "ERROR"
    /\ state.syncStateData = [kind |-> "noerror", name |-> ""]
    /\ state.isResending
    /\ resends = 1
    /\ Len(state.unsentMessages) > 0

\* C17: on a mounted bar, a Room.localEchoUpdated event for another room
\* leaves the state unchanged; one for the bar's own room replaces
\* unsentMessages with the room's current NOT_SENT pending events, leaves
\* syncState and syncStateData unchanged, and never turns isResending from
\* false to true.
C17_LocalEchoFrame ==
    [][ /\ (phase = "mounted" /\ onOtherRoomLocalEchoUpdated) => state' = state
        /\ \A e \in EventIds, st \in EventStatuses :
              (phase = "mounted" /\ onRoomLocalEchoUpdated(e, st))
                 => /\ state'.unsentMessages = getUnsentMessages(pending')
                    /\ state'.syncState = state.syncState
                    /\ state'.syncStateData = state.syncStateData
                    /\ (~state.isResending => ~state'.isResending) ]_vars

\* After "Retry all", a local-echo update found no unsent message and one
\* that followed found one again: isResending was set to false by the first
\* and is still false, although the resend promise has not settled.
C17_Witness ==
    /\ phase = "mounted"
    /\ resends > 0
    /\ ~state.isResending
    /\ state.unsentMessages = getUnsentMessages(pending)
    /\ Len(state.unsentMessages) = 1
    /\ state.syncState = "RECONNECTING"

\* isResending with no unsent message.
ResendingNoneUnsent(s) == s.isResending /\ s.unsentMessages = <<>>

\* C18 as stated: in every reachable state (Retry all being clicked only
\* through the rendered button), isResending = true implies that
\* unsentMessages is non-empty.
C18_ResendingImpliesUnsent ==
    state.isResending => Len(state.unsentMessages) > 0

\* C18, amended: the state "isResending with no unsent message" is entered
\* only by a "Retry all" click, when the resend itself has already taken every
\* unsent message out of NOT_SENT; and on a mounted bar a local-echo update of
\* the room that finds no unsent message always ends the resending state.
C18_ResendingWithoutUnsentOnlyByClick ==
    [][ /\ (~ResendingNoneUnsent(state) /\ ResendingNoneUnsent(state'))
              => (resends' = resends + 1 /\ rendered.buttons = "retryCancel")
        /\ \A e \in EventIds, st \in EventStatuses :
              (phase = "mounted" /\ onRoomLocalEchoUpdated(e, st)
                    /\ getUnsentMessages(pending') = <<>>)
                 => ~state'.isResending ]_vars

\* Right after "Retry all" on a bar whose unsent messages all went back to
\* SENDING within the click: the spinner is shown with no unsent message left.
C18_Witness ==
    /\ phase = "mounted"
    /\ ResendingNoneUnsent(state)
    /\ resends = 1
    /\ rendered = [bar |-> "unsentMessages", buttons |-> "spinner"]
    /\ \A e \in EventIds : pending[e] = "SENDING"

-----------------------------------------------------------------------------
(* Slash commands: registry, parser, dispatcher                            *)

\* The Commands array, in source order: primary name, aliases, and which
\* isEnabled closure the entry carries ("default": none given).  goto, join, op
\* and deop are imported objects, listed under their import names; the entries
\* generated from CHAT_EFFECTS are not listed.
Commands ==
    <<
       [command |-> "spoiler", aliases |-> <<>>, isEnabled |-> "default"],
       [command |-> "shrug", aliases |-> <<>>, isEnabled |-> "default"],
       [command |-> "tableflip", aliases |-> <<>>, isEnabled |-> "default"],
       [command |-> "unflip", aliases |-> <<>>, isEnabled |-> "default"],
       [command |-> "lenny", aliases |-> <<>>, isEnabled |-> "default"],
       [command |-> "plain", aliases |-> <<>>, isEnabled |-> "default"],
       [command |-> "html", aliases |-> <<>>, isEnabled |-> "default"],
       [command |-> "upgraderoom", aliases |-> <<>>, isEnabled |-> "notLocalRoom"],
       [command |-> "jumptodate", aliases |-> <<>>, isEnabled |-> "jumpToDate"],
       [command |-> "nick", aliases |-> <<>>, isEnabled |-> "default"],
       [command |-> "myroomnick", aliases |-> <<"roomnick">>, isEnabled |-> "notLocalRoom"],
       [command |-> "roomavatar", aliases |-> <<>>, isEnabled |-> "notLocalRoom"],
       [command |-> "myroomavatar", aliases |-> <<>>, isEnabled |-> "notLocalRoom"],
       [command |-> "myavatar", aliases |-> <<>>, isEnabled |-> "default"],
       [command |-> "topic", aliases |-> <<>>, isEnabled |-> "notLocalRoom"],
       [command |-> "roomname", aliases |-> <<>>, isEnabled |-> "notLocalRoom"],
       [command |-> "invite", aliases |-> <<>>, isEnabled |-> "invite"],
       [command |-> "goto", aliases |-> <<>>, isEnabled |-> "default"],
       [command |-> "join", aliases |-> <<>>, isEnabled |-> "default"],
       [command |-> "part", aliases |-> <<>>, isEnabled |-> "notLocalRoom"],
       [command |-> "remove", aliases |-> <<"kick">>, isEnabled |-> "notLocalRoom"],
       [command |-> "ban", aliases |-> <<>>, isEnabled |-> "notLocalRoom"],
       [command |-> "unban", aliases |-> <<>>, isEnabled |-> "notLocalRoom"],
       [command |-> "ignore", aliases |-> <<>>, isEnabled |-> "default"],
       [command |-> "unignore", aliases |-> <<>>, isEnabled |-> "default"],
       [command |-> "op", aliases |-> <<>>, isEnabled |-> "default"],
       [command |-> "deop", aliases |-> <<>>, isEnabled |-> "default"],
       [command |-> "devtools", aliases |-> <<>>, isEnabled |-> "default"],
       [command |-> "addwidget", aliases |-> <<>>, isEnabled |-> "addwidget"],
       [command |-> "verify", aliases |-> <<>>, isEnabled |-> "default"],
       [command |-> "discardsession", aliases |-> <<>>, isEnabled |-> "notLocalRoom"],
       [command |-> "remakeolm", aliases |-> <<>>, isEnabled |-> "remakeolm"],
       [command |-> "rainbow", aliases |-> <<>>, isEnabled |-> "default"],
       [command |-> "rainbowme", aliases |-> <<>>, isEnabled |-> "default"],
       [command |-> "help", aliases |-> <<>>, isEnabled |-> "default"],
       [command |-> "whois", aliases |-> <<>>, isEnabled |-> "notLocalRoom"],
       [command |-> "rageshake", aliases |-> <<"bugreport">>, isEnabled |-> "rageshake"],
       [command |-> "tovirtual", aliases |-> <<>>, isEnabled |-> "tovirtual"],
       [command |-> "query", aliases |-> <<>>, isEnabled |-> "default"],
       [command |-> "msg", aliases |-> <<>>, isEnabled |-> "default"],
       [command |-> "holdcall", aliases |-> <<>>, isEnabled |-> "notLocalRoom"],
       [command |-> "unholdcall", aliases |-> <<>>, isEnabled |-> "notLocalRoom"],
       [command |-> "converttodm", aliases |-> <<>>, isEnabled |-> "notLocalRoom"],
       [command |-> "converttoroom", aliases |-> <<>>, isEnabled |-> "notLocalRoom"],
       [command |-> "me", aliases |-> <<>>, isEnabled |-> "default"]
    >>

\* The isEnabled closures.  env is the set of settings that are truthy:
\*   localRoom                isCurrentLocalRoom(cli)
\*   feature_jump_to_date     SettingsStore.getValue("feature_jump_to_date")
\*   InviteUsers              shouldShowComponent(UIComponent.InviteUsers)
\*   Widgets                  SettingsStore.getValue(UIFeature.Widgets)
\*   AddIntegrations          shouldShowComponent(UIComponent.AddIntegrations)
\*   developerMode            SettingsStore.getValue("developerMode")
\*   bug_report_endpoint_url  SdkConfig.get().bug_report_endpoint_url
\*   supportsVirtualRooms     LegacyCallHandler.instance.getSupportsVirtualRooms()
isEnabled(c, e) ==
    CASE c.isEnabled = "notLocalRoom" -> "localRoom" \notin e
      [] c.isEnabled = "jumpToDate" -> "feature_jump_to_date" \in e
      [] c.isEnabled = "invite" -> "localRoom" \notin e /\ "InviteUsers" \in e
      [] c.isEnabled = "addwidget" ->
            "Widgets" \in e /\ "AddIntegrations" \in e /\ "localRoom" \notin e
      [] c.isEnabled = "remakeolm" -> "developerMode" \in e /\ "localRoom" \notin e
      [] c.isEnabled = "rageshake" -> "bug_report_endpoint_url" \in e
      [] c.isEnabled = "tovirtual" -> "supportsVirtualRooms" \in e /\ "localRoom" \notin e
      [] OTHER -> TRUE

\* The environments explored: the settings below vary, the others keep the
\* value given in FixedSettings.
VariedSettings == {"localRoom", "bug_report_endpoint_url", "feature_jump_to_date"}
FixedSettings == {"InviteUsers", "Widgets", "AddIntegrations"}
Envs == {FixedSettings \cup v : v \in SUBSET VariedSettings}

SeqToSet(q) == {q[i] : i \in 1..Len(q)}

\* One iteration of Commands.forEach: set the primary name, then every alias.
RECURSIVE SetAll(_, _, _)
SetAll(map, keys, v) ==
    IF keys = <<>> THEN map
    ELSE LET k == Head(keys)
             m2 == [x \in DOMAIN map \cup {k} |-> IF x = k THEN v ELSE map[x]]
         IN  SetAll(m2, Tail(keys), v)

\* Variant: the aliases are not registered.
RegisterOne_noAliases(map, i) == SetAll(map, <<Commands[i].command>>, i)

RegisterOne(map, i) == SetAll(map, <<Commands[i].command>> \o Commands[i].aliases, i)

RegisterCommand ==
    /\ cpc = "idle"
    /\ buildPos <= Len(Commands)
    /\ CommandMap' = RegisterOne(CommandMap, buildPos)
    /\ buildPos' = buildPos + 1
    /\ UNCHANGED <<env, cpc, input, parsed, result>>
    /\ UNCHANGED notCmd

Built == buildPos > Len(Commands)

----
\* Strings are sequences of one-character strings.

IsWhitespace(c) == c \in {" ", "\n", "\t", "\r"}

Uppers == <<"A", "B", "C", "D", "E", "F", "G", "H", "I", "J", "K", "L", "M",
            "N", "O", "P", "Q", "R", "S", "T", "U", "V", "W", "X", "Y", "Z">>
Lowers == <<"a", "b", "c", "d", "e", "f", "g", "h", "i", "j", "k", "l", "m",
            "n", "o", "p", "q", "r", "s", "t", "u", "v", "w", "x", "y", "z">>

toLowerCase(q) ==
    [i \in 1..Len(q) |->
        IF \E j \in 1..26 : Uppers[j] = q[i]
        THEN Lowers[CHOOSE j \in 1..26 : Uppers[j] = q[i]]
        ELSE q[i]]

\* The characters as one string (the key type of CommandMap).
RECURSIVE Str(_)
Str(q) == IF q = <<>> THEN "" ELSE Head(q) \o Str(Tail(q))

RECURSIVE trimEnd(_)
trimEnd(q) ==
    IF q # <<>> /\ IsWhitespace(q[Len(q)]) THEN trimEnd(SubSeq(q, 1, Len(q) - 1)) ELSE q

\* Length of the longest prefix of q, from position i on, whose characters are in S.
RECURSIVE RunEnd(_, _, _)
RunEnd(q, i, S) == IF i <= Len(q) /\ q[i] \in S THEN RunEnd(q, i + 1, S) ELSE i - 1

\* input.match(/^(\S+?)(?:[ \n]+((.|\n)*))?$/) on a string that starts with
\* a non-whitespace character.  \S+? can only end where the first whitespace
\* stands (k) or at the end of the string; the optional group then needs a run
\* of ' ' and '\n' there, and to reach $ everything after it must be matched by
\* (.|\n), which '.' does not do for '\r'.  Group 2 is what follows the longest
\* run of ' ' and '\n' (both quantifiers are greedy).
NoMatch == [matched |-> FALSE, g1 |-> <<>>, hasG2 |-> FALSE, g2 |-> <<>>]
MatchBits(q) ==
    LET n == Len(q)
        k == CHOOSE i \in 0..n :
                /\ \A j \in 1..i : ~IsWhitespace(q[j])
                /\ (i < n => IsWhitespace(q[i + 1]))
    IN  IF k = 0 THEN NoMatch
        ELSE IF k = n THEN [matched |-> TRUE, g1 |-> q, hasG2 |-> FALSE, g2 |-> <<>>]
        ELSE IF q[k + 1] \notin {" ", "\n"} THEN NoMatch
        ELSE LET j == RunEnd(q, k + 1, {" ", "\n"})
                 rest == SubSeq(q, j + 1, n)
             IN  IF \E i \in 1..Len(rest) : rest[i] = "\r" THEN NoMatch
                 ELSE [matched |-> TRUE, g1 |-> SubSeq(q, 1, k), hasG2 |-> TRUE, g2 |-> rest]

\* Variant: the trailing whitespace is not trimmed first.
parseCommandString_noTrim(in) ==
    IF in = <<>> \/ in[1] # "/" THEN NoParse
    ELSE LET bits == MatchBits(in)
         IN  IF bits.matched
             THEN [hasCmd |-> TRUE, cmd |-> toLowerCase(Tail(bits.g1)),
                   hasArgs |-> bits.hasG2, args |-> bits.g2]
             ELSE [hasCmd |-> TRUE, cmd |-> in, hasArgs |-> FALSE, args |-> <<>>]

parseCommandString(in0) ==
    LET in == trimEnd(in0) IN
    IF in = <<>> \/ in[1] # "/" THEN NoParse
    ELSE LET bits == MatchBits(in)
         IN  IF bits.matched
             THEN [hasCmd |-> TRUE, cmd |-> toLowerCase(Tail(bits.g1)),
                   hasArgs |-> bits.hasG2, args |-> bits.g2]
             ELSE [hasCmd |-> TRUE, cmd |-> in, hasArgs |-> FALSE, args |-> <<>>]

\* Variant: the command is returned whether enabled or not.
getCommand_ignoreEnabled(in, map, e) ==
    LET p == parseCommandString(in) IN
    IF p.hasCmd /\ p.cmd # <<>> /\ Str(p.cmd) \in DOMAIN map
    THEN [hasCmd |-> TRUE, cmd |-> map[Str(p.cmd)], hasArgs |-> p.hasArgs, args |-> p.args]
    ELSE NoResult

getCommand(in, map, e) ==
    LET p == parseCommandString(in) IN
    IF /\ p.hasCmd /\ p.cmd # <<>>
       /\ Str(p.cmd) \in DOMAIN map
       /\ isEnabled(Commands[map[Str(p.cmd)]], e)
    THEN [hasCmd |-> TRUE, cmd |-> map[Str(p.cmd)], hasArgs |-> p.hasArgs, args |-> p.args]
    ELSE NoResult

----
\* The inputs explored: an optional lead, a word, and a tail of at most
\* MaxTail characters.
MaxTail == 3

Leads == {<<>>, <<"/">>, <<" ", "/">>}
Words == { <<>>,
           <<"k", "i", "c", "k">>,
           <<"R", "e", "m", "o", "v", "e">>,
           <<"b", "u", "g", "r", "e", "p", "o", "r", "t">>,
           <<"m", "e">>,
           <<"j", "u", "m", "p", "t", "o", "d", "a", "t", "e">>,
           <<"n", "o", "p", "e">> }
TailChars == {" ", "\n", "\t", "\r", "x"}
Tails == UNION {[1..n -> TailChars] : n \in 0..MaxTail}
Inputs == {l \o w \o t : l \in Leads, w \in Words, t \in Tails}

InitCmd ==
    /\ env \in Envs
    /\ CommandMap = <<>>
    /\ buildPos = 1
    /\ cpc = "idle"
    /\ input = <<>>
    /\ parsed = NoParse
    /\ result = NoResult
    /\ IdleBar /\ IdleVerify /\ IdleStore /\ IdlePoll /\ IdleEmote

\* The user types a line into the composer.
TypeInput ==
    /\ cpc = "idle"
    /\ Built
    /\ cpc' = "typed"
    /\ input' \in Inputs
    /\ UNCHANGED <<env, CommandMap, buildPos, parsed, result>>
    /\ UNCHANGED notCmd

CallParseCommandString ==
    /\ cpc = "typed"
    /\ cpc' = "parsed"
    /\ parsed' = parseCommandString(input)
    /\ UNCHANGED <<env, CommandMap, buildPos, input, result>>
    /\ UNCHANGED notCmd

CallGetCommand ==
    /\ cpc = "typed"
    /\ cpc' = "got"
    /\ parsed' = parseCommandString(input)
    /\ result' = getCommand(input, CommandMap, env)
    /\ UNCHANGED <<env, CommandMap, buildPos, input>>
    /\ UNCHANGED notCmd

NextCmd ==
    \/ RegisterCommand
    \/ TypeInput
    \/ CallParseCommandString
    \/ CallGetCommand

SpecCmd == InitCmd /\ [][NextCmd]_vars

-----------------------------------------------------------------------------
(* Properties of the slash commands                                        *)

\* C1: getCommand returns a Command (with the parsed args) exactly when the
\* parsed command name is a key of CommandMap and that command is enabled; for
\* every other input - not starting with '/', unknown name, disabled command -
\* it returns the empty object, with neither cmd nor args.
C1_GetCommandOnlyKnownEnabled ==
    cpc = "got" =>
        LET name == Str(parsed.cmd)
            known == parsed.hasCmd /\ name \in DOMAIN CommandMap
            enabled == known /\ isEnabled(Commands[CommandMap[name]], env)
        IN  /\ enabled => result = [hasCmd |-> TRUE, cmd |-> CommandMap[name],
                                    hasArgs |-> parsed.hasArgs, args |-> parsed.args]
            /\ ~enabled => result = NoResult
            /\ (input = <<>> \/ input[1] # "/") => result = NoResult

\* C1 witness: "/kick x" typed outside a local room: the remove command, args "x".
C1_Witness ==
    /\ cpc = "got"
    /\ input = <<"/", "k", "i", "c", "k", " ", "x">>
    /\ "localRoom" \notin env
    /\ result.hasCmd
    /\ Commands[result.cmd].command = "remove"
    /\ result.hasArgs /\ result.args = <<"x">>

\* C2: once the registry is built, every primary name and every alias is a key
\* of CommandMap, every key maps to a command that bears it as name or alias,
\* and every alias maps to the same command as its primary name (kick and
\* remove, roomnick and myroomnick, bugreport and rageshake).
C2_RegistryCoversNamesAndAliases ==
    Built =>
        /\ \A i \in 1..Len(Commands) :
              /\ Commands[i].command \in DOMAIN CommandMap
              /\ \A a \in SeqToSet(Commands[i].aliases) :
                    /\ a \in DOMAIN CommandMap
                    /\ CommandMap[a] = CommandMap[Commands[i].command]
        /\ \A k \in DOMAIN CommandMap :
              \/ Commands[CommandMap[k]].command = k
              \/ k \in SeqToSet(Commands[CommandMap[k]].aliases)
        /\ "kick" \in DOMAIN CommandMap /\ CommandMap["kick"] = CommandMap["remove"]
        /\ "roomnick" \in DOMAIN CommandMap /\ CommandMap["roomnick"] = CommandMap["myroomnick"]
        /\ "bugreport" \in DOMAIN CommandMap /\ CommandMap["bugreport"] = CommandMap["rageshake"]

\* C2 witness: the registry is complete and a line has been dispatched through
\* the alias bugreport to the rageshake command.
C2_Witness ==
    /\ Built
    /\ cpc = "got"
    /\ Str(parsed.cmd) = "bugreport"
    /\ result.hasCmd
    /\ Commands[result.cmd].command = "rageshake"

\* The input without its trailing whitespace.
WithoutTrailingWhitespace(q) ==
    LET n == CHOOSE i \in 0..Len(q) :
                /\ (i > 0 => ~IsWhitespace(q[i]))
                /\ \A j \in (i + 1)..Len(q) : IsWhitespace(q[j])
    IN  SubSeq(q, 1, n)

\* C6: parseCommandString(input) returns the same cmd and args as
\* parseCommandString of the input without its trailing whitespace, and the
\* args it returns never end in whitespace.
C6_ParseIgnoresTrailingWhitespace ==
    cpc = "parsed" =>
        /\ parsed = parseCommandString(WithoutTrailingWhitespace(input))
        /\ (parsed.hasArgs /\ parsed.args # <<>>)
              => ~IsWhitespace(parsed.args[Len(parsed.args)])

\* C6 witness: "/kick x" followed by a newline parses to kick with args "x".
C6_Witness ==
    /\ cpc = "parsed"
    /\ input = <<"/", "k", "i", "c", "k", " ", "x", "\n">>
    /\ parsed.cmd = <<"k", "i", "c", "k">>
    /\ parsed.hasArgs /\ parsed.args = <<"x">>

-----------------------------------------------------------------------------
(* The verify command                                                      *)

MaxArgLen == 5

ArgChars == {"a", "b", " ", "\t"}
ArgStrings == UNION {[1..n -> ArgChars] : n \in 0..MaxArgLen}

\* What the SDK may answer: device.getFingerprint() (<<>>: undefined) and the
\* verification status (deviceTrust undefined, or isVerified() true / false).
Fingerprints == {<<>>, <<"a">>, <<"b">>}
Trusts == {"undefined", "verified", "unverified"}

RECURSIVE RunEndNonWs(_, _)
RunEndNonWs(q, i) ==
    IF i <= Len(q) /\ ~IsWhitespace(q[i]) THEN RunEndNonWs(q, i + 1) ELSE i - 1

\* args.match(/^(\S+) +(\S+) +(\S+)$/): three runs of non-whitespace separated
\* by runs of spaces, covering the whole string.
matchVerifyArgs(q) ==
    LET k1 == RunEndNonWs(q, 1)
        s1 == RunEnd(q, k1 + 1, {" "})
        k2 == RunEndNonWs(q, s1 + 1)
        s2 == RunEnd(q, k2 + 1, {" "})
        k3 == RunEndNonWs(q, s2 + 1)
    IN  IF k1 >= 1 /\ s1 > k1 /\ k2 > s1 /\ s2 > k2 /\ k3 > s2 /\ k3 = Len(q)
        THEN [matched |-> TRUE,
              tokens |-> [userId |-> SubSeq(q, 1, k1),
                          deviceId |-> SubSeq(q, s1 + 1, k2),
                          fingerprint |-> SubSeq(q, s2 + 1, k3)]]
        ELSE [matched |-> FALSE, tokens |-> NoTokens]

\* Variant: the fingerprint is not compared for a device that is not yet verified.
verifyChecks_noKeyCheck(device, trust, fingerprint) ==
    IF trust = "verified"
    THEN (IF device.fingerprint = fingerprint
          THEN "alreadyVerified" ELSE "alreadyVerifiedMismatch")
    ELSE "proceed"

\* The checks between the two lookups and setDeviceVerified: which error is
\* thrown, or "proceed".
verifyChecks(device, trust, fingerprint) ==
    IF trust = "verified"
    THEN (IF device.fingerprint = fingerprint
          THEN "alreadyVerified" ELSE "alreadyVerifiedMismatch")
    ELSE IF device.fingerprint # fingerprint THEN "keyMismatch"
    ELSE "proceed"

InitVerify ==
    /\ vpc = "idle"
    /\ vargs \in {[has |-> FALSE, s |-> <<>>]} \cup [has : {TRUE}, s : ArgStrings]
    /\ vmatch = NoTokens
    /\ vdevice = NoDevice
    /\ vtrust = "none"
    /\ setDeviceVerifiedCalls = <<>>
    /\ setDeviceVerifiedDone = FALSE
    /\ dialogs = <<>>
    /\ voutcome = "pending"
    /\ IdleBar /\ IdleCmd /\ IdleStore /\ IdlePoll /\ IdleEmote

\* runFn up to the first await, or to reject(this.getUsage()).
runVerify ==
    /\ vpc = "idle"
    /\ LET m == matchVerifyArgs(vargs.s) IN
       IF vargs.has /\ vargs.s # <<>> /\ m.matched
       THEN /\ vmatch' = m.tokens
            /\ vpc' = "getDeviceCryptoInfo"
            /\ UNCHANGED voutcome
       ELSE /\ vpc' = "done"
            /\ voutcome' = "usage"
            /\ UNCHANGED vmatch
    /\ UNCHANGED <<vargs, vdevice, vtrust, setDeviceVerifiedCalls, setDeviceVerifiedDone, dialogs>>
    /\ UNCHANGED notVerify

\* getDeviceCryptoInfo resolves.
deviceInfoResolved(d) ==
    /\ vpc = "getDeviceCryptoInfo"
    /\ vdevice' = d
    /\ IF ~d.known
       THEN vpc' = "done" /\ voutcome' = "unknownPair"
       ELSE vpc' = "getDeviceVerificationStatus" /\ UNCHANGED voutcome
    /\ UNCHANGED <<vargs, vmatch, vtrust, setDeviceVerifiedCalls, setDeviceVerifiedDone, dialogs>>
    /\ UNCHANGED notVerify

\* getDeviceVerificationStatus resolves; the checks run, and setDeviceVerified
\* is called if they pass.
deviceTrustResolved(t) ==
    /\ vpc = "getDeviceVerificationStatus"
    /\ vtrust' = t
    /\ LET r == verifyChecks(vdevice, t, vmatch.fingerprint) IN
       IF r = "proceed"
       THEN /\ setDeviceVerifiedCalls' =
                   Append(setDeviceVerifiedCalls,
                          [userId |-> vmatch.userId, deviceId |-> vmatch.deviceId,
                           verified |-> TRUE])
            /\ vpc' = "setDeviceVerified"
            /\ UNCHANGED voutcome
       ELSE /\ vpc' = "done"
            /\ voutcome' = r
            /\ UNCHANGED setDeviceVerifiedCalls
    /\ UNCHANGED <<vargs, vmatch, vdevice, setDeviceVerifiedDone, dialogs>>
    /\ UNCHANGED notVerify

\* setDeviceVerified resolves: the "Verified key" dialog is created.
setDeviceVerifiedResolved ==
    /\ vpc = "setDeviceVerified"
    /\ setDeviceVerifiedDone' = TRUE
    /\ dialogs' = Append(dialogs, "Verified key")
    /\ vpc' = "done"
    /\ voutcome' = "resolved"
    /\ UNCHANGED <<vargs, vmatch, vdevice, vtrust, setDeviceVerifiedCalls>>
    /\ UNCHANGED notVerify

\* One of the awaited SDK promises rejects: the async function throws.
sdkCallRejected ==
    /\ vpc \in {"getDeviceCryptoInfo", "getDeviceVerificationStatus", "setDeviceVerified"}
    /\ vpc' = "done"
    /\ voutcome' = "sdkError"
    /\ UNCHANGED <<vargs, vmatch, vdevice, vtrust, setDeviceVerifiedCalls,
                   setDeviceVerifiedDone, dialogs>>
    /\ UNCHANGED notVerify

NextVerify ==
    \/ runVerify
    \/ \E fp \in Fingerprints : deviceInfoResolved([known |-> TRUE, fingerprint |-> fp])
    \/ deviceInfoResolved(NoDevice)
    \/ \E t \in Trusts : deviceTrustResolved(t)
    \/ setDeviceVerifiedResolved
    \/ sdkCallRejected

SpecVerify == InitVerify /\ [][NextVerify]_vars

----
\* The whitespace-free tokens of a string, in order.
RECURSIVE Tokens(_)
Tokens(q) ==
    IF q = <<>> THEN <<>>
    ELSE IF IsWhitespace(Head(q)) THEN Tokens(Tail(q))
    ELSE LET k == RunEndNonWs(q, 1)
         IN  <<SubSeq(q, 1, k)>> \o Tokens(SubSeq(q, k + 1, Len(q)))

\* C7: setDeviceVerified(userId, deviceId, true) is called only when the args
\* are exactly three whitespace-free tokens, the pair is known, the device is
\* not already verified and its fingerprint equals the third token; when the
\* handler ends without all of that, it has failed (usage, unknown pair,
\* already verified, key mismatch, or a rejected SDK call) without calling
\* setDeviceVerified; and the "Verified key" dialog is shown only after
\* setDeviceVerified has completed.
C7_VerifyOnlyOnMatchingKey ==
    LET toks == Tokens(vargs.s)
        allHold == /\ vargs.has /\ Len(toks) = 3
                   /\ vdevice.known
                   /\ vtrust # "verified"
                   /\ vdevice.fingerprint = toks[3]
        failures == {"usage", "unknownPair", "alreadyVerified", "alreadyVerifiedMismatch",
                     "keyMismatch", "sdkError"}
    IN  /\ setDeviceVerifiedCalls # <<>> =>
              /\ allHold
              /\ setDeviceVerifiedCalls =
                    <<[userId |-> toks[1], deviceId |-> toks[2], verified |-> TRUE]>>
        /\ (vpc = "done" /\ ~allHold) =>
              /\ setDeviceVerifiedCalls = <<>>
              /\ voutcome \in failures
        /\ dialogs # <<>> => (setDeviceVerifiedDone /\ dialogs = <<"Verified key">>)
        /\ setDeviceVerifiedDone => setDeviceVerifiedCalls # <<>>

\* C7 witness: "a b a" with device (a, b) known, unverified, fingerprint "a":
\* the device has been marked verified and the dialog shown.
C7_Witness ==
    /\ vpc = "done"
    /\ vargs.s = <<"a", " ", "b", " ", "a">>
    /\ vdevice = [known |-> TRUE, fingerprint |-> <<"a">>]
    /\ vtrust = "unverified"
    /\ Len(setDeviceVerifiedCalls) = 1
    /\ dialogs = <<"Verified key">>
    /\ voutcome = "resolved"

-----------------------------------------------------------------------------
(* SetupEncryptionStore, driven as its unit test drives it: the SDK is     *)
(* mocked, and mock holds what the mocks answer.                           *)

MaxDevices == 2

DeviceIds == 1..MaxDevices
UserId == "@userId:matrix.org"
CachedPassword == "p4assword"

\* The key description that isStored reports for a key id.
KeyDescription(k) == k \o ":description"

\* The device lists the mocked getUserDeviceInfo may report for the own user
\* (<<>> also stands for a map without an entry for the user).
DeviceLists ==
    {q \in UNION {[1..n -> DeviceIds] : n \in 0..MaxDevices} :
        \A i, j \in 1..Len(q) : i # j => q[i] # q[j]}

Mocks ==
    [storedKeys : {<<>>, <<"sskeyid">>, <<"sskeyid", "otherkey">>},
     dehydrated : {0} \cup DeviceIds,
     devices : DeviceLists,
     identityKey : [DeviceIds -> BOOLEAN],
     signedByOwner : [DeviceIds -> BOOLEAN],
     password : {"", CachedPassword}]

InitStore ==
    /\ mock \in Mocks
    /\ store = NewStore
    /\ spc = "idle"
    /\ devIdx = 0
    /\ statusQueried = {}
    /\ observed = <<>>
    /\ accessCalls = <<>>
    /\ requests = <<>>
    /\ IdleBar /\ IdleCmd /\ IdleVerify /\ IdlePoll /\ IdleEmote

\* emit("update"): the listeners see the store as it is now.
Emit(by, st) == observed' = Append(observed, [by |-> by, store |-> st])

\* start(): marks the store started and runs fetchKeyInfo up to its first await.
start ==
    /\ spc = "idle"
    /\ ~store.started
    /\ store' = [store EXCEPT !.started = TRUE]
    /\ spc' = "isStored"
    /\ UNCHANGED <<mock, devIdx, statusQueried, observed, accessCalls, requests>>
    /\ UNCHANGED notStore

\* Variant: the key is recorded only after the update has gone out.
keyFields_late(st, keys) == st

\* fetchKeyInfo: the key id and description taken from what isStored reported.
keyFields(st, keys) ==
    IF keys = <<>>
    THEN [st EXCEPT !.keyId = "", !.keyInfo = ""]
    ELSE [st EXCEPT !.keyId = keys[1], !.keyInfo = KeyDescription(keys[1])]

isStoredResolved ==
    /\ spc = "isStored"
    /\ store' = keyFields(store, mock.storedKeys)
    /\ spc' = "getDehydratedDevice"
    /\ UNCHANGED <<mock, devIdx, statusQueried, observed, accessCalls, requests>>
    /\ UNCHANGED notStore

getDehydratedDeviceResolved ==
    /\ spc = "getDehydratedDevice"
    /\ spc' = "getUserDeviceInfo"
    /\ UNCHANGED <<mock, store, devIdx, statusQueried, observed, accessCalls, requests>>
    /\ UNCHANGED notStore

getUserDeviceInfoResolved ==
    /\ spc = "getUserDeviceInfo"
    /\ devIdx' = 1
    /\ spc' = "asyncSome"
    /\ UNCHANGED <<mock, store, statusQueried, observed, accessCalls, requests>>
    /\ UNCHANGED notStore

\* fetchKeyInfo's end: hasDevicesToVerifyAgainst and phase are set, then the
\* update is emitted.
finishFetch(has) ==
    /\ store' = [store EXCEPT !.hasDevicesToVerifyAgainst = has, !.phase = "Intro"]
    /\ Emit("start", store')
    /\ spc' = "started"

\* Variant: the dehydrated device is examined like any other.
skipDevice_keepDehydrated(d, m) == ~m.identityKey[d]

\* The devices asyncSome's predicate rejects without asking for their
\* verification status: the dehydrated device, and devices without identity key.
skipDevice(d, m) == d = m.dehydrated \/ ~m.identityKey[d]

\* One round of asyncSome over the user's devices.
examineDevice ==
    /\ spc = "asyncSome"
    /\ devIdx <= Len(mock.devices)
    /\ LET d == mock.devices[devIdx] IN
       IF skipDevice(d, mock)
       THEN /\ devIdx' = devIdx + 1
            /\ UNCHANGED <<store, spc, statusQueried, observed>>
       ELSE /\ statusQueried' = statusQueried \cup {d}
            /\ IF mock.signedByOwner[d]
               THEN finishFetch(TRUE) /\ UNCHANGED devIdx
               ELSE devIdx' = devIdx + 1 /\ UNCHANGED <<store, spc, observed>>
    /\ UNCHANGED <<mock, accessCalls, requests>>
    /\ UNCHANGED notStore

\* asyncSome found no device.
noDeviceFound ==
    /\ spc = "asyncSome"
    /\ devIdx > Len(mock.devices)
    /\ finishFetch(FALSE)
    /\ UNCHANGED <<mock, devIdx, statusQueried, accessCalls, requests>>
    /\ UNCHANGED notStore

\* Variant: secret storage is accessed without forcing a reset.
accessArgs_noReset == [func |-> TRUE, forceReset |-> FALSE]

\* The arguments resetConfirm passes to accessSecretStorage.
accessArgs == [func |-> TRUE, forceReset |-> TRUE]

\* resetConfirm(): calls accessSecretStorage(func, true).
resetConfirm ==
    /\ spc \in {"idle", "started"}
    /\ accessCalls' = Append(accessCalls, accessArgs)
    /\ spc' = "inAccess"
    /\ UNCHANGED <<mock, store, devIdx, statusQueried, observed, requests>>
    /\ UNCHANGED notStore

\* Inside func: bootstrapCrossSigning calls authUploadDeviceSigningKeys, which
\* with a cached password calls makeRequest, and otherwise asks the user.
bootstrapCrossSigning ==
    /\ spc = "inAccess"
    /\ IF mock.password # ""
       THEN /\ requests' = Append(requests,
                   [type |-> "m.login.password",
                    identifier |-> [type |-> "m.id.user", user |-> UserId],
                    user |-> UserId,
                    password |-> mock.password])
            /\ spc' = "bootstrapped"
       ELSE /\ spc' = "interactiveAuth"
            /\ UNCHANGED requests
    /\ UNCHANGED <<mock, store, devIdx, statusQueried, observed, accessCalls>>
    /\ UNCHANGED notStore

\* The interactive-auth dialog finishes.
interactiveAuthFinished ==
    /\ spc = "interactiveAuth"
    /\ spc' = "bootstrapped"
    /\ UNCHANGED <<mock, store, devIdx, statusQueried, observed, accessCalls, requests>>
    /\ UNCHANGED notStore

\* accessSecretStorage returns: phase Finished, update emitted.
resetFinished ==
    /\ spc = "bootstrapped"
    /\ store' = [store EXCEPT !.phase = "Finished"]
    /\ Emit("resetConfirm", store')
    /\ spc' = "resetDone"
    /\ UNCHANGED <<mock, devIdx, statusQueried, accessCalls, requests>>
    /\ UNCHANGED notStore

NextStore ==
    \/ start
    \/ isStoredResolved
    \/ getDehydratedDeviceResolved
    \/ getUserDeviceInfoResolved
    \/ examineDevice
    \/ noDeviceFound
    \/ resetConfirm
    \/ bootstrapCrossSigning
    \/ interactiveAuthFinished
    \/ resetFinished

SpecStore == InitStore /\ [][NextStore]_vars

----
StartUpdates == {i \in 1..Len(observed) : observed[i].by = "start"}

\* C8: at start()'s update, hasDevicesToVerifyAgainst is true exactly when the
\* own device list holds a device with an identity key that is not the
\* dehydrated device and is signed by its owner; so it is false for an unsigned
\* device, for a list holding only the dehydrated device (no verification
\* status is then queried) and for an empty device map.
C8_HasDevicesToVerifyAgainst ==
    \A i \in StartUpdates :
        LET ds == SeqToSet(mock.devices) IN
        /\ observed[i].store.hasDevicesToVerifyAgainst
              = (\E d \in ds : /\ mock.identityKey[d]
                               /\ d # mock.dehydrated
                               /\ mock.signedByOwner[d])
        /\ ds \subseteq {mock.dehydrated} => statusQueried = {}
        /\ ds = {} => ~observed[i].store.hasDevicesToVerifyAgainst

\* C8 witness: the dehydrated device, signed and with identity key, comes first
\* and is ignored; the second device is signed and is found.
C8_Witness ==
    /\ StartUpdates # {}
    /\ Len(mock.devices) = 2
    /\ mock.devices[1] = mock.dehydrated
    /\ mock.identityKey[mock.devices[1]] /\ mock.signedByOwner[mock.devices[1]]
    /\ statusQueried = {mock.devices[2]}
    /\ store.hasDevicesToVerifyAgainst

\* C9: resetConfirm accesses secret storage with forceReset = true, and the
\* bootstrap inside that access authorises the key upload with one
\* m.login.password request carrying the user id and the cached password.
C9_ResetConfirmUsesCachedPassword ==
    /\ \A i \in 1..Len(accessCalls) : accessCalls[i].func /\ accessCalls[i].forceReset
    /\ requests # <<>> =>
          /\ Len(accessCalls) = 1
          /\ mock.password # ""
          /\ requests = <<[type |-> "m.login.password",
                           identifier |-> [type |-> "m.id.user", user |-> UserId],
                           user |-> UserId,
                           password |-> mock.password]>>
    /\ (spc \in {"bootstrapped", "resetDone"} /\ mock.password = CachedPassword)
          => Len(requests) = 1

\* C9 witness: resetConfirm has finished with the password of the test cached.
C9_Witness ==
    /\ spc = "resetDone"
    /\ mock.password = CachedPassword
    /\ Len(accessCalls) = 1
    /\ Len(requests) = 1 /\ requests[1].password = CachedPassword

\* C10: what a listener of start()'s update sees in keyId and keyInfo is the
\* id and the description of the key isStored reported.
C10_KeyInfoSetBeforeUpdate ==
    \A i \in StartUpdates :
        mock.storedKeys # <<>> =>
            /\ observed[i].store.keyId = mock.storedKeys[1]
            /\ observed[i].store.keyInfo = KeyDescription(mock.storedKeys[1])

\* C10 witness: isStored reported sskeyid and the update has been emitted.
C10_Witness ==
    /\ StartUpdates # {}
    /\ mock.storedKeys = <<"sskeyid">>
    /\ observed[1].store.keyId = "sskeyid"

-----------------------------------------------------------------------------
(* Poll history dialog                                                     *)
(* The dialog component is not part of the sources at hand; the room side  *)
(* follows the helpers of the end-to-end test (createPoll, botVoteForOption,*)
(* endPoll, openPollHistory), the dialog side follows its described         *)
(* behaviour.                                                               *)

PollIds == 1..MaxPolls

NO_ACTIVE_POLLS == "There are no active polls in this room"
NO_PAST_POLLS == "There are no past polls in this room"

\* Variant: a poll stays in the active list after its poll.end event.
activePolls_started(st) == {p \in PollIds : st[p] # "none"}

\* The polls no poll.end event refers to.
activePolls(st) == {p \in PollIds : st[p] = "active"}

\* The polls some poll.end event refers to.
pastPolls(st) == {p \in PollIds : st[p] = "ended"}

\* What the list under the given filter shows: its items, or the empty-list text.
renderList(filter, list) ==
    [items |-> list,
     text |-> IF list # {} THEN ""
              ELSE IF filter = "ACTIVE" THEN NO_ACTIVE_POLLS ELSE NO_PAST_POLLS]

\* The dialog recomputes both lists from the room's poll events whenever it is
\* open and such an event arrives; a closed dialog lists nothing.
refreshLists(open, st) ==
    /\ activeList' = IF open THEN activePolls(st) ELSE {}
    /\ pastList' = IF open THEN pastPolls(st) ELSE {}

\* A new room, no poll yet, the dialog closed.
InitPoll ==
    /\ pollStatus = [p \in PollIds |-> "none"]
    /\ pollVotes = [p \in PollIds |-> 0]
    /\ dlg = ClosedDialog
    /\ activeList = {}
    /\ pastList = {}
    /\ endedWhileOpen = {}
    /\ IdleBar /\ IdleCmd /\ IdleVerify /\ IdleStore /\ IdleEmote

\* createPoll: an org.matrix.msc3381.poll.start event is sent to the room.
createPoll(p) ==
    /\ pollStatus[p] = "none"
    /\ \A q \in PollIds : q < p => pollStatus[q] # "none"
    /\ pollStatus' = [pollStatus EXCEPT ![p] = "active"]
    /\ refreshLists(dlg.open, pollStatus')
    /\ UNCHANGED <<pollVotes, dlg, endedWhileOpen>>
    /\ UNCHANGED notPoll

\* botVoteForOption: a poll.response event referring to the poll; responses to
\* an ended poll are not counted.
botVoteForOption(p) ==
    /\ pollStatus[p] = "active"
    /\ pollVotes[p] < MaxVotes
    /\ pollVotes' = [pollVotes EXCEPT ![p] = @ + 1]
    /\ UNCHANGED <<pollStatus, dlg, activeList, pastList, endedWhileOpen>>
    /\ UNCHANGED notPoll

\* endPoll: a poll.end event whose m.relates_to references the poll's start event.
endPoll(p) ==
    /\ pollStatus[p] = "active"
    /\ pollStatus' = [pollStatus EXCEPT ![p] = "ended"]
    /\ refreshLists(dlg.open, pollStatus')
    /\ endedWhileOpen' = IF dlg.open THEN endedWhileOpen \cup {p} ELSE endedWhileOpen
    /\ UNCHANGED <<pollVotes, dlg>>
    /\ UNCHANGED notPoll

\* openPollHistory: Room info -> Poll history; the dialog opens on "Active polls".
openPollHistory ==
    /\ ~dlg.open
    /\ dlg' = [open |-> TRUE, filter |-> "ACTIVE", detail |-> 0]
    /\ refreshLists(TRUE, pollStatus)
    /\ endedWhileOpen' = {}
    /\ UNCHANGED <<pollStatus, pollVotes>>
    /\ UNCHANGED notPoll

\* The "Active polls" / "Past polls" tab is clicked.
selectFilter(f) ==
    /\ dlg.open
    /\ dlg.detail = 0
    /\ dlg.filter # f
    /\ dlg' = [dlg EXCEPT !.filter = f]
    /\ UNCHANGED <<pollStatus, pollVotes, activeList, pastList, endedWhileOpen>>
    /\ UNCHANGED notPoll

\* A poll of the list on display is clicked: its detail is shown.
openDetail(p) ==
    /\ dlg.open
    /\ dlg.detail = 0
    /\ p \in renderList(dlg.filter, IF dlg.filter = "ACTIVE" THEN activeList ELSE pastList).items
    /\ dlg' = [dlg EXCEPT !.detail = p]
    /\ UNCHANGED <<pollStatus, pollVotes, activeList, pastList, endedWhileOpen>>
    /\ UNCHANGED notPoll

\* An answer is clicked in the detail of a poll that is still active.
voteInDetail ==
    /\ dlg.open
    /\ dlg.detail # 0
    /\ pollStatus[dlg.detail] = "active"
    /\ pollVotes[dlg.detail] < MaxVotes
    /\ pollVotes' = [pollVotes EXCEPT ![dlg.detail] = @ + 1]
    /\ UNCHANGED <<pollStatus, dlg, activeList, pastList, endedWhileOpen>>
    /\ UNCHANGED notPoll

\* The back button of the detail returns to the list.
backToList ==
    /\ dlg.open
    /\ dlg.detail # 0
    /\ dlg' = [dlg EXCEPT !.detail = 0]
    /\ UNCHANGED <<pollStatus, pollVotes, activeList, pastList, endedWhileOpen>>
    /\ UNCHANGED notPoll

closeDialog ==
    /\ dlg.open
    /\ dlg' = ClosedDialog
    /\ refreshLists(FALSE, pollStatus)
    /\ endedWhileOpen' = {}
    /\ UNCHANGED <<pollStatus, pollVotes>>
    /\ UNCHANGED notPoll

NextPoll ==
    \/ \E p \in PollIds : createPoll(p)
    \/ \E p \in PollIds : botVoteForOption(p)
    \/ \E p \in PollIds : endPoll(p)
    \/ openPollHistory
    \/ \E f \in {"ACTIVE", "ENDED"} : selectFilter(f)
    \/ \E p \in PollIds : openDetail(p)
    \/ voteInDetail
    \/ backToList
    \/ closeDialog

SpecPoll == InitPoll /\ [][NextPoll]_vars

\* C11: while the poll history dialog is open, every poll of the room is in
\* exactly one of the two lists, the active list while no poll.end event refers
\* to it and the past list once one does; a poll ended while the dialog is open
\* is in the past list without the dialog having been reopened; and the active
\* list shows "There are no active polls in this room" exactly when no un-ended
\* poll remains.
C11_PollsListedByEndEvent ==
    dlg.open =>
        /\ \A p \in PollIds :
              /\ pollStatus[p] = "none" => p \notin activeList /\ p \notin pastList
              /\ pollStatus[p] = "active" => p \in activeList /\ p \notin pastList
              /\ pollStatus[p] = "ended" => p \in pastList /\ p \notin activeList
        /\ endedWhileOpen \subseteq pastList
        /\ (renderList("ACTIVE", activeList).text = NO_ACTIVE_POLLS)
              <=> (\A p \in PollIds : pollStatus[p] # "active")

\* The end of the test: both polls were started, the last active one was ended
\* with the dialog open, and the "Active polls" tab shows the empty-list text.
C11_Witness ==
    /\ dlg.open
    /\ dlg.filter = "ACTIVE"
    /\ dlg.detail = 0
    /\ endedWhileOpen # {}
    /\ pastList = PollIds
    /\ renderList(dlg.filter, activeList).text = NO_ACTIVE_POLLS
    /\ \E p \in endedWhileOpen : pollVotes[p] = 2

-----------------------------------------------------------------------------
(* Emoticon commands: /shrug, /tableflip, /unflip, /lenny                  *)
(* A string is a sequence of UTF-16 code units; a unit outside printable   *)
(* ASCII is written by its code point.                                     *)

EmoticonCommands == {"shrug", "tableflip", "unflip", "lenny"}

\* The string literal each runFn starts its message with.
Emoticon(c) ==
    CASE c = "shrug" ->
            <<"U+00AF", "\\", "_", "(", "U+30C4", ")", "_", "/", "U+00AF">>
      [] c = "tableflip" ->
            <<"(", "U+256F", "U+00B0", "U+25A1", "U+00B0", "U+FF09", "U+256F",
              "U+FE35", " ", "U+253B", "U+2501", "U+253B">>
      [] c = "unflip" ->
            <<"U+252C", "U+2500", "U+2500", "U+252C", " ", "U+30CE", "(", " ",
              "U+309C", "-", "U+309C", "U+30CE", ")">>
      [] c = "lenny" ->
            <<"(", " ", "U+0361", "U+00B0", " ", "U+035C", "U+0296", " ",
              "U+0361", "U+00B0", ")">>

\* Variant: the args are appended without the test for truthiness.
emoticonMessage_alwaysAppend(emoticon, args) ==
    emoticon \o <<" ">> \o args.s

\* let message = <emoticon>; if (args) { message = message + " " + args; }
\* undefined and "" are both falsy.
emoticonMessage(emoticon, args) ==
    IF args.has /\ args.s # <<>>
    THEN emoticon \o <<" ">> \o args.s
    ELSE emoticon

\* ContentHelpers.makeTextMessage(body)
makeTextMessage(body) == [msgtype |-> "m.text", body |-> body]

\* successSync(value): a RunResult whose promise is already resolved with value.
successSync(value) == [settled |-> "resolved", content |-> value]

EmoteArgChars == {"a", " ", "\n"}

EmoteArgStrings ==
    UNION { [1..n -> EmoteArgChars] : n \in 0..MaxEmoteArgs }

\* undefined, "" and every short string.
EmoteArgs ==
    { [has |-> FALSE, s |-> <<>>] } \cup { [has |-> TRUE, s |-> a] : a \in EmoteArgStrings }

InitEmote ==
    /\ epc = "ready"
    /\ ecmd \in EmoticonCommands
    /\ eargs \in EmoteArgs
    /\ eresult = NoRunResult
    /\ IdleBar /\ IdleCmd /\ IdleVerify /\ IdleStore /\ IdlePoll

\* runFn(cli, roomId, threadId, args) of the command ecmd.
runEmoticon ==
    /\ epc = "ready"
    /\ epc' = "ran"
    /\ eresult' = successSync(makeTextMessage(emoticonMessage(Emoticon(ecmd), eargs)))
    /\ UNCHANGED <<ecmd, eargs>>
    /\ UNCHANGED notEmote

NextEmote == runEmoticon

SpecEmote == InitEmote /\ [][NextEmote]_vars

\* C12: shrug, tableflip, unflip and lenny never reject; with non-empty args
\* the result is a plain-text message whose body is the emoticon, one space,
\* then the args unchanged; with empty or missing args the body is the emoticon
\* alone, with no trailing space.
C12_EmoticonBody ==
    epc = "ran" =>
        LET body == eresult.content.body
            n == Len(Emoticon(ecmd))
        IN  /\ eresult.settled = "resolved"
            /\ eresult.content.msgtype = "m.text"
            /\ SubSeq(body, 1, n) = Emoticon(ecmd)
            /\ IF eargs.has /\ Len(eargs.s) > 0
               THEN /\ Len(body) = n + 1 + Len(eargs.s)
                    /\ body[n + 1] = " "
                    /\ SubSeq(body, n + 2, Len(body)) = eargs.s
               ELSE /\ Len(body) = n
                    /\ body[Len(body)] # " "

\* /lenny run with args that begin and end with whitespace.
C12_Witness ==
    /\ epc = "ran"
    /\ ecmd = "lenny"
    /\ eargs = [has |-> TRUE, s |-> <<" ", "a", "\n">>]
    /\ Len(eresult.content.body) = 15
    /\ eresult.content.body[14] = "a"

====
